---- MODULE Spec2Model ----
(***************************************************************************)
(* Parametric Value-at-Risk notebook                                       *)
(* (portfolio_management/Portfolio_Management_W_Value_Risk).               *)
(*                                                                         *)
(* The notebook is a kernel namespace plus a linear sequence of code       *)
(* cells: parameters, price download, return statistics and portfolio      *)
(* aggregation, the VaR estimate, and the horizon scaling.  A cell that    *)
(* raises stops the run; the names it bound before raising stay bound.     *)
(*                                                                         *)
(* Floating-point values are modelled as exact rationals <<n, d>> in       *)
(* lowest terms (d > 0), extended with the IEEE specials NaN = <<0,0>>,    *)
(* +inf = <<1,0>>, -inf = <<-1,0>>.  np.sqrt is truncated to a multiple of *)
(* 1/SqrtRes; the standard normal quantile is tabulated to 3 decimals.     *)
(***************************************************************************)
EXTENDS Integers, Sequences, FiniteSets, TLC

VARIABLES
    pc,               \* the next cell to execute, or "done" / "failed"
    err,              \* the exception that stopped the run, "none" otherwise
    names,            \* the names bound in the kernel namespace
    log,              \* the cells executed so far, in order
    tickers, weights, portfolio_value, confidence,
    data,
    returns, mean_returns, port_mean, investment_mean,
    cov_matrix, port_stdev, investment_stdev,
    percent_point, value_at_risk,
    value_at_risks,
    prev              \* the outcome of the previous run in this kernel, if any

vars == <<pc, err, names, log, tickers, weights, portfolio_value, confidence,
          data, returns, mean_returns, port_mean, investment_mean,
          cov_matrix, port_stdev, investment_stdev, percent_point,
          value_at_risk, value_at_risks, prev>>

---------------------------------------------------------------------------
(* Bounds of the model *)

\* most rows a price table returned by the provider has
MaxRows == 3

\* np.sqrt is truncated to a multiple of 1/SqrtRes
SqrtRes == 100

---------------------------------------------------------------------------
(* Floating-point values *)

NaN == <<0, 0>>
PInf == <<1, 0>>
NInf == <<-1, 0>>
Zero == <<0, 1>>
One == <<1, 1>>

\* the value of a name that is not bound
Unset == <<>>

Abs(n) == IF n < 0 THEN -n ELSE n

Sign(n) == IF n < 0 THEN -1 ELSE IF n > 0 THEN 1 ELSE 0

RECURSIVE GCD(_, _)
GCD(a, b) == IF b = 0 THEN a ELSE GCD(b, a % b)

\* the float n/d, d # 0, in lowest terms
Rat(n, d) ==
    LET g == GCD(Abs(n), Abs(d))
        s == IF d < 0 THEN -1 ELSE 1
    IN  <<(s * n) \div g, Abs(d) \div g>>

IsNaN(x) == x = NaN

IsFinite(x) == x[2] # 0

FNeg(x) == <<-x[1], x[2]>>

FAdd(a, b) ==
    IF IsNaN(a) \/ IsNaN(b) THEN NaN
    ELSE IF ~IsFinite(a) /\ ~IsFinite(b) THEN (IF a = b THEN a ELSE NaN)
    ELSE IF ~IsFinite(a) THEN a
    ELSE IF ~IsFinite(b) THEN b
    ELSE LET g == GCD(a[2], b[2])
         IN  Rat(a[1] * (b[2] \div g) + b[1] * (a[2] \div g),
                 (a[2] \div g) * b[2])

FSub(a, b) == FAdd(a, FNeg(b))

FMul(a, b) ==
    IF IsNaN(a) \/ IsNaN(b) THEN NaN
    ELSE IF ~IsFinite(a) \/ ~IsFinite(b)
         THEN (IF a[1] = 0 \/ b[1] = 0 THEN NaN
               ELSE <<Sign(a[1]) * Sign(b[1]), 0>>)
    ELSE LET g1 == GCD(Abs(a[1]), b[2])
             g2 == GCD(Abs(b[1]), a[2])
         IN  Rat((a[1] \div g1) * (b[1] \div g2),
                 (a[2] \div g2) * (b[2] \div g1))

\* float division: x/0 is +-inf, 0/0 is NaN, no exception
FDiv(a, b) ==
    IF IsNaN(a) \/ IsNaN(b) THEN NaN
    ELSE IF ~IsFinite(a) /\ ~IsFinite(b) THEN NaN
    ELSE IF ~IsFinite(a)
         THEN <<a[1] * (IF b[1] < 0 THEN -1 ELSE 1), 0>>
    ELSE IF ~IsFinite(b) THEN Zero
    ELSE IF b[1] = 0
         THEN (IF a[1] = 0 THEN NaN ELSE <<Sign(a[1]), 0>>)
    ELSE LET g1 == GCD(Abs(a[1]), Abs(b[1]))
             g2 == GCD(a[2], b[2])
         IN  Rat((a[1] \div g1) * (b[2] \div g2) * Sign(b[1]),
                 (a[2] \div g2) * (Abs(b[1]) \div g1))

\* a < b; every comparison with NaN is false
FLt(a, b) ==
    /\ ~IsNaN(a)
    /\ ~IsNaN(b)
    /\ a # b
    /\ IF ~IsFinite(a) THEN a = NInf
       ELSE IF ~IsFinite(b) THEN b = PInf
       ELSE FSub(a, b)[1] < 0

FLe(a, b) == ~IsNaN(a) /\ ~IsNaN(b) /\ (a = b \/ FLt(a, b))

RECURSIVE ISqrtIter(_, _, _)
ISqrtIter(k, lo, hi) ==
    IF lo >= hi THEN lo
    ELSE LET mid == (lo + hi + 1) \div 2
         IN  IF mid * mid <= k THEN ISqrtIter(k, mid, hi)
             ELSE ISqrtIter(k, lo, mid - 1)

\* the largest s with s * s <= k
ISqrt(k) == ISqrtIter(k, 0, IF k < 46340 THEN k ELSE 46340)

\* np.sqrt: NaN for a negative argument (a warning, no exception)
FSqrt(a) ==
    IF IsNaN(a) \/ a[1] < 0 THEN NaN
    ELSE IF ~IsFinite(a) THEN PInf
    ELSE Rat(ISqrt((a[1] * SqrtRes * SqrtRes) \div a[2]), SqrtRes)

RECURSIVE FSum(_)
FSum(s) == IF s = <<>> THEN Zero ELSE FAdd(Head(s), FSum(Tail(s)))

---------------------------------------------------------------------------
(* Inputs of a run *)

\* the ticker list of the parameter cell
TickerList == <<"META", "C">>

\* weight vectors a caller may write in the parameter cell; <<1>> and the
\* three-entry vector do not match the two tickers
WeightChoices ==
    { <<Rat(3, 5), Rat(2, 5)>>,
      <<One>>,
      <<Rat(1, 2), Rat(1, 4), Rat(1, 4)>> }

PortfolioValues == { Rat(1000, 1) }

\* confidence levels a caller may write: inside (0,1), on its border and
\* outside it
ConfidenceChoices == { Rat(1, 20), Rat(1, 2), Zero, Rat(6, 5) }

\* closing prices the provider may return: a table without gaps, whose prices
\* may be zero (a non-positive price) or positive
PriceValues == { Zero, One, Rat(2, 1) }

Range(start, stop) == [i \in 1 .. (stop - start) |-> start + i - 1]

SeqRange(s) == { s[i] : i \in DOMAIN s }

\* the orders in which the provider may return the columns of the tickers t
ColumnOrders(t) ==
    { o \in [1 .. Len(t) -> SeqRange(t)] :
        \A i, j \in 1 .. Len(t) : i # j => o[i] # o[j] }

\* the price tables with the columns cols the provider may return
PriceTables(cols) ==
    UNION { { [cols |-> cols, rows |-> rows] :
                rows \in [1 .. r -> [1 .. Len(cols) -> PriceValues]] } :
            r \in 0 .. MaxRows }

---------------------------------------------------------------------------
(* pandas / numpy / scipy operations the cells call *)

NumCols(table) == Len(table.cols)

Column(rows, j) == [i \in 1 .. Len(rows) |-> rows[i][j]]

\* DataFrame.pct_change: row i is p[i] / p[i-1] - 1, the first row is NaN
PctChange(table) ==
    [cols |-> table.cols,
     rows |-> [i \in 1 .. Len(table.rows) |->
                 [j \in 1 .. NumCols(table) |->
                    IF i = 1 THEN NaN
                    ELSE FSub(FDiv(table.rows[i][j], table.rows[i - 1][j]),
                              One)]]]

NotNaN(x) == ~IsNaN(x)

\* Series.mean with skipna: NaN entries are left out, NaN when none is left
NanMean(col) ==
    LET obs == SelectSeq(col, NotNaN)
    IN  IF Len(obs) = 0 THEN NaN
        ELSE FDiv(FSum(obs), Rat(Len(obs), 1))

\* DataFrame.mean: one mean per column
ColumnMeans(table) ==
    [j \in 1 .. NumCols(table) |-> NanMean(Column(table.rows, j))]

BothFinite(p) == IsFinite(p[1]) /\ IsFinite(p[2])

\* one entry of DataFrame.cov: the sample covariance (divisor nobs - 1) over
\* the rows where both columns are finite, NaN with fewer than two such rows
PairCov(x, y) ==
    LET obs == SelectSeq([r \in 1 .. Len(x) |-> <<x[r], y[r]>>], BothFinite)
        n == Len(obs)
    IN  IF n < 2 THEN NaN
        ELSE LET mx == FDiv(FSum([r \in 1 .. n |-> obs[r][1]]), Rat(n, 1))
                 my == FDiv(FSum([r \in 1 .. n |-> obs[r][2]]), Rat(n, 1))
             IN  FDiv(FSum([r \in 1 .. n |->
                              FMul(FSub(obs[r][1], mx), FSub(obs[r][2], my))]),
                      Rat(n - 1, 1))

\* DataFrame.cov
CovMatrix(table) ==
    [i \in 1 .. NumCols(table) |->
       [j \in 1 .. NumCols(table) |->
          PairCov(Column(table.rows, i), Column(table.rows, j))]]

Min(a, b) == IF a < b THEN a ELSE b

\* a dot product that accepts operands of any lengths
DotShapeUnchecked(l, r) == TRUE

\* Series.dot(ndarray) raises "Dot product shape mismatch" unless the
\* lengths agree
DotShapeOk(l, r) == Len(l) = Len(r)

\* np.dot of two vectors: positional, whatever the labels of l are
Dot(l, r) == FSum([i \in 1 .. Min(Len(l), Len(r)) |-> FMul(l[i], r[i])])

\* ndarray.dot(DataFrame) raises ValueError unless the shapes are aligned
MatShapeOk(w, m) == Len(w) = Len(m) /\ \A i \in 1 .. Len(m) : Len(m[i]) = Len(w)

\* w . m : the vector of the dot products of w with the columns of m
VecMat(w, m) == [j \in 1 .. Len(w) |-> Dot(w, [i \in 1 .. Len(m) |-> m[i][j]])]

\* a quadratic form that leaves out the covariances between distinct assets
QuadFormDiagonal(w, m) ==
    FSum([i \in 1 .. Len(w) |-> FMul(FMul(w[i], w[i]), m[i][i])])

\* weights.T.dot(cov_matrix).dot(weights)
QuadForm(w, m) == Dot(VecMat(w, m), w)

PortMean(mean, w) == Dot(mean, w)

\* an expected value that compounds on the expected value already in the
\* kernel, as portfolio_value = (1 + port_mean) * portfolio_value would
InvestmentMeanCompounding(pm, pv) ==
    IF "investment_mean" \in names THEN FMul(FAdd(One, pm), investment_mean)
    ELSE FMul(FAdd(One, pm), pv)

InvestmentMean(pm, pv) == FMul(FAdd(One, pm), pv)

PortStdev(w, m) == FSqrt(QuadForm(w, m))

InvestmentStdev(pv, ps) == FMul(pv, ps)

\* the quantiles of the standard normal distribution, to 3 decimals
StdNormalQuantile(q) ==
    CASE q = Rat(1, 100) -> Rat(-2326, 1000)
      [] q = Rat(1, 20) -> Rat(-1645, 1000)
      [] q = Rat(1, 10) -> Rat(-1282, 1000)
      [] q = Rat(1, 2) -> Zero
      [] q = Rat(9, 10) -> Rat(1282, 1000)
      [] q = Rat(19, 20) -> Rat(1645, 1000)

\* scipy.stats.norm.ppf(q, loc, scale): NaN unless scale > 0 and loc is not
\* NaN; -inf and +inf scaled at q = 0 and q = 1; NaN for q outside [0, 1];
\* never an exception
NormPpf(q, loc, scale) ==
    IF ~(FLt(Zero, scale) /\ ~IsNaN(loc)) THEN NaN
    ELSE IF q = Zero THEN FAdd(FMul(NInf, scale), loc)
    ELSE IF q = One THEN FAdd(FMul(PInf, scale), loc)
    ELSE IF FLt(Zero, q) /\ FLt(q, One)
         THEN FAdd(FMul(StdNormalQuantile(q), scale), loc)
    ELSE NaN

\* the quantile minus the notional
ValueAtRiskSwapped(pv, pp) == FSub(pp, pv)

ValueAtRisk(pv, pp) == FSub(pv, pp)

\* range(0, 30)
HorizonDaysFromZero == Range(0, 30)

\* range(1, 31)
HorizonDays == Range(1, 31)

\* value_at_risk * np.sqrt(range(1, 31))
ScaleByRootTime(v, days) ==
    [k \in 1 .. Len(days) |-> FMul(v, FSqrt(Rat(days[k], 1)))]

---------------------------------------------------------------------------
(* The notebook run *)

\* a run that calls the provider again when the download raised
NextCellRetrying(cell, raised) ==
    IF raised THEN (IF cell = "download" THEN "download" ELSE "failed")
    ELSE CASE cell = "params" -> "download"
           [] cell = "download" -> "stats"
           [] cell = "stats" -> "var"
           [] cell = "var" -> "scale"
           [] cell = "scale" -> "done"

\* the cell that runs after `cell`; a cell that raised stops the run
NextCell(cell, raised) ==
    IF raised THEN "failed"
    ELSE CASE cell = "params" -> "download"
           [] cell = "download" -> "stats"
           [] cell = "stats" -> "var"
           [] cell = "var" -> "scale"
           [] cell = "scale" -> "done"

\* the names bound by the cells after the download
ComputedNames ==
    {"returns", "mean_returns", "port_mean", "investment_mean", "cov_matrix",
     "port_stdev", "investment_stdev", "percent_point", "value_at_risk",
     "value_at_risks"}

\* the cells after the download
ComputationCells == {"stats", "var", "scale"}

Init ==
    /\ pc = "params"
    /\ err = "none"
    /\ names = {}
    /\ log = <<>>
    /\ tickers = Unset
    /\ weights = Unset
    /\ portfolio_value = Unset
    /\ confidence = Unset
    /\ data = Unset
    /\ returns = Unset
    /\ mean_returns = Unset
    /\ port_mean = Unset
    /\ investment_mean = Unset
    /\ cov_matrix = Unset
    /\ port_stdev = Unset
    /\ investment_stdev = Unset
    /\ percent_point = Unset
    /\ value_at_risk = Unset
    /\ value_at_risks = Unset
    /\ prev = Unset

\* tickers = [...]; weights = np.array([...]); portfolio_value = ...;
\* confidence = ...
ParamsCell ==
    /\ pc = "params"
    /\ \E w \in WeightChoices, pv \in PortfolioValues, c \in ConfidenceChoices :
         /\ tickers' = TickerList
         /\ weights' = w
         /\ portfolio_value' = pv
         /\ confidence' = c
    /\ names' = names \cup {"tickers", "weights", "portfolio_value", "confidence"}
    /\ log' = Append(log, "params")
    /\ pc' = NextCell("params", FALSE)
    /\ UNCHANGED <<prev, err, data, returns, mean_returns, port_mean, investment_mean,
                   cov_matrix, port_stdev, investment_stdev, percent_point,
                   value_at_risk, value_at_risks>>

\* data = yf.download(tickers, ...)['Close']: the provider returns a price
\* table, its columns in an order of its own choosing
DownloadReturns ==
    /\ pc = "download"
    /\ \E cols \in ColumnOrders(tickers) :
         \E table \in PriceTables(cols) : data' = table
    /\ names' = names \cup {"data"}
    /\ log' = Append(log, "download")
    /\ pc' = NextCell("download", FALSE)
    /\ UNCHANGED <<prev, err, tickers, weights, portfolio_value, confidence, returns,
                   mean_returns, port_mean, investment_mean, cov_matrix,
                   port_stdev, investment_stdev, percent_point, value_at_risk,
                   value_at_risks>>

\* data = yf.download(...): the call raises, data stays unbound
DownloadRaises ==
    /\ pc = "download"
    /\ err' = "retrieval"
    /\ log' = Append(log, "download")
    /\ pc' = NextCell("download", TRUE)
    /\ UNCHANGED <<prev, names, tickers, weights, portfolio_value, confidence, data,
                   returns, mean_returns, port_mean, investment_mean,
                   cov_matrix, port_stdev, investment_stdev, percent_point,
                   value_at_risk, value_at_risks>>

\* returns = data.pct_change() ... investment_stdev = portfolio_value *
\* port_stdev.  The statements run in order; the first that raises ends the
\* cell and leaves the later names unbound.
StatsCell ==
    /\ pc = "stats"
    /\ log' = Append(log, "stats")
    /\ LET r == PctChange(data)
           m == ColumnMeans(r)
           pm == PortMean(m, weights)
           c == CovMatrix(r)
           ps == PortStdev(weights, c)
       IN  /\ returns' = r
           /\ mean_returns' = m
           /\ IF ~DotShapeOk(m, weights)
              THEN /\ err' = "dot-shape-mismatch"
                   /\ pc' = NextCell("stats", TRUE)
                   /\ names' = names \cup {"returns", "mean_returns"}
                   /\ UNCHANGED <<port_mean, investment_mean, cov_matrix,
                                  port_stdev, investment_stdev>>
              ELSE /\ port_mean' = pm
                   /\ investment_mean' = InvestmentMean(pm, portfolio_value)
                   /\ cov_matrix' = c
                   /\ IF ~MatShapeOk(weights, c)
                      THEN /\ err' = "shapes-not-aligned"
                           /\ pc' = NextCell("stats", TRUE)
                           /\ names' = names \cup
                                {"returns", "mean_returns", "port_mean",
                                 "investment_mean", "cov_matrix"}
                           /\ UNCHANGED <<port_stdev, investment_stdev>>
                      ELSE /\ port_stdev' = ps
                           /\ investment_stdev' =
                                InvestmentStdev(portfolio_value, ps)
                           /\ err' = err
                           /\ pc' = NextCell("stats", FALSE)
                           /\ names' = names \cup
                                {"returns", "mean_returns", "port_mean",
                                 "investment_mean", "cov_matrix",
                                 "port_stdev", "investment_stdev"}
    /\ UNCHANGED <<prev, tickers, weights, portfolio_value, confidence, data,
                   percent_point, value_at_risk, value_at_risks>>

\* percent_point = norm.ppf(confidence, investment_mean, investment_stdev);
\* value_at_risk = portfolio_value - percent_point
VarCell ==
    /\ pc = "var"
    /\ LET pp == NormPpf(confidence, investment_mean, investment_stdev)
       IN  /\ percent_point' = pp
           /\ value_at_risk' = ValueAtRisk(portfolio_value, pp)
    /\ names' = names \cup {"percent_point", "value_at_risk"}
    /\ log' = Append(log, "var")
    /\ pc' = NextCell("var", FALSE)
    /\ UNCHANGED <<prev, err, tickers, weights, portfolio_value, confidence, data,
                   returns, mean_returns, port_mean, investment_mean,
                   cov_matrix, port_stdev, investment_stdev, value_at_risks>>

\* value_at_risks = value_at_risk * np.sqrt(range(1, 31)); plt.plot(...)
ScaleCell ==
    /\ pc = "scale"
    /\ value_at_risks' = ScaleByRootTime(value_at_risk, HorizonDays)
    /\ names' = names \cup {"value_at_risks"}
    /\ log' = Append(log, "scale")
    /\ pc' = NextCell("scale", FALSE)
    /\ UNCHANGED <<prev, err, tickers, weights, portfolio_value, confidence, data,
                   returns, mean_returns, port_mean, investment_mean,
                   cov_matrix, port_stdev, investment_stdev, percent_point,
                   value_at_risk>>

Next ==
    \/ ParamsCell
    \/ DownloadReturns
    \/ DownloadRaises
    \/ StatsCell
    \/ VarCell
    \/ ScaleCell

Spec == Init /\ [][Next]_vars

---------------------------------------------------------------------------
(* The aggregator, the estimator and the scaler on given statistics: the    *)
(* statements after returns.mean() and returns.cov(), started from a mean   *)
(* return vector and a covariance matrix of the same assets.                *)

\* the confidence levels inside (0,1) the quantile table covers
UnitLevels ==
    { Rat(1, 100), Rat(1, 20), Rat(1, 10), Rat(1, 2), Rat(9, 10), Rat(19, 20) }

\* confidence levels on the border of (0,1) and outside it
OutsideLevels == { Zero, One, Rat(6, 5), Rat(-1, 10) }

AggWeightChoices ==
    { <<Rat(3, 5), Rat(2, 5)>>, <<Rat(1, 4), Rat(3, 4)>>, <<One, Zero>>, <<One>> }

MeanChoices ==
    [1 .. 2 -> { Rat(1, 1000), Rat(1, 2000), Zero, Rat(-1, 1000) }]

\* symmetric positive semi-definite 2 x 2 matrices, entries in 1/10000
CovChoices ==
    { <<<<Rat(a, 10000), Rat(c, 10000)>>, <<Rat(c, 10000), Rat(b, 10000)>>>> :
        <<a, b, c>> \in { t \in {0, 4, 9} \X {0, 4, 9} \X {-1, 0, 1} :
                            t[3] * t[3] <= t[1] * t[2] } }

InitAgg ==
    /\ pc = "aggregate"
    /\ err = "none"
    /\ log = <<>>
    /\ names = {"tickers", "weights", "portfolio_value", "confidence",
                "mean_returns", "cov_matrix"}
    /\ tickers = TickerList
    /\ weights \in AggWeightChoices
    /\ portfolio_value \in PortfolioValues
    /\ confidence \in UnitLevels \cup OutsideLevels
    /\ mean_returns \in MeanChoices
    /\ cov_matrix \in CovChoices
    /\ data = Unset
    /\ returns = Unset
    /\ port_mean = Unset
    /\ investment_mean = Unset
    /\ port_stdev = Unset
    /\ investment_stdev = Unset
    /\ percent_point = Unset
    /\ value_at_risk = Unset
    /\ value_at_risks = Unset
    /\ prev = Unset

\* port_mean = mean_returns.dot(weights) ... investment_stdev =
\* portfolio_value * port_stdev, on the given mean_returns and cov_matrix
AggregateStep ==
    /\ pc = "aggregate"
    /\ log' = Append(log, "aggregate")
    /\ LET pm == PortMean(mean_returns, weights)
           ps == PortStdev(weights, cov_matrix)
       IN  IF ~DotShapeOk(mean_returns, weights)
           THEN /\ err' = "dot-shape-mismatch"
                /\ pc' = NextCell("stats", TRUE)
                /\ UNCHANGED <<names, port_mean, investment_mean, port_stdev,
                               investment_stdev>>
           ELSE /\ port_mean' = pm
                /\ investment_mean' = InvestmentMean(pm, portfolio_value)
                /\ IF ~MatShapeOk(weights, cov_matrix)
                   THEN /\ err' = "shapes-not-aligned"
                        /\ pc' = NextCell("stats", TRUE)
                        /\ names' = names \cup {"port_mean", "investment_mean"}
                        /\ UNCHANGED <<port_stdev, investment_stdev>>
                   ELSE /\ port_stdev' = ps
                        /\ investment_stdev' =
                             InvestmentStdev(portfolio_value, ps)
                        /\ err' = err
                        /\ pc' = NextCell("stats", FALSE)
                        /\ names' = names \cup
                             {"port_mean", "investment_mean", "port_stdev",
                              "investment_stdev"}
    /\ UNCHANGED <<prev, tickers, weights, portfolio_value, confidence, data,
                   returns, mean_returns, cov_matrix, percent_point,
                   value_at_risk, value_at_risks>>

NextAgg ==
    \/ AggregateStep
    \/ VarCell
    \/ ScaleCell

SpecAgg == InitAgg /\ [][NextAgg]_vars

---------------------------------------------------------------------------
(* A second run of the pipeline cells in the same kernel: the statistics,   *)
(* VaR and scaling cells are executed again on the unchanged price table    *)
(* and parameters, with every name of the first run still bound.            *)

\* confidence levels of the runs that are repeated
RerunConfidenceChoices == { Rat(1, 20), Rat(6, 5) }

\* the kernel after the parameter cell and a download that returned
InitRerun ==
    /\ pc = "stats"
    /\ err = "none"
    /\ log = <<"params", "download">>
    /\ names = {"tickers", "weights", "portfolio_value", "confidence", "data"}
    /\ tickers = TickerList
    /\ weights \in WeightChoices
    /\ portfolio_value \in PortfolioValues
    /\ confidence \in RerunConfidenceChoices
    /\ data \in UNION { PriceTables(cols) : cols \in ColumnOrders(TickerList) }
    /\ returns = Unset
    /\ mean_returns = Unset
    /\ port_mean = Unset
    /\ investment_mean = Unset
    /\ cov_matrix = Unset
    /\ port_stdev = Unset
    /\ investment_stdev = Unset
    /\ percent_point = Unset
    /\ value_at_risk = Unset
    /\ value_at_risks = Unset
    /\ prev = Unset

\* what a run leaves behind: how it ended and the names it bound, with the
\* one-day VaR and the horizon sequence among them
Outcome ==
    [pc |-> pc, err |-> err, names |-> names,
     value_at_risk |-> value_at_risk, value_at_risks |-> value_at_risks]

\* the pipeline cells are executed once more from the statistics cell; the
\* kernel is not restarted, so every name keeps its value
Rerun ==
    /\ pc \in {"done", "failed"}
    /\ prev = Unset
    /\ prev' = <<Outcome>>
    /\ pc' = "stats"
    /\ err' = "none"
    /\ UNCHANGED <<names, log, tickers, weights, portfolio_value, confidence,
                   data, returns, mean_returns, port_mean, investment_mean,
                   cov_matrix, port_stdev, investment_stdev, percent_point,
                   value_at_risk, value_at_risks>>

NextRerun ==
    \/ StatsCell
    \/ VarCell
    \/ ScaleCell
    \/ Rerun

SpecRerun == InitRerun /\ [][NextRerun]_vars

---------------------------------------------------------------------------
(* Properties *)

Bound(n) == n \in names

Ran(cell) == \E i \in DOMAIN log : log[i] = cell

HasNaN(vec) == \E i \in DOMAIN vec : IsNaN(vec[i])

InUnitInterval(q) == FLt(Zero, q) /\ FLt(q, One)

\* the weight vector has one entry per ticker
WeightsMatch == Len(weights) = Len(tickers)

\* every price of the table is positive
PricesPositive ==
    \A i \in DOMAIN data.rows :
        \A j \in DOMAIN data.rows[i] : FLt(Zero, data.rows[i][j])

\* the table has the two rows a return needs
EnoughRows == Len(data.rows) >= 2

\* C1: when the confidence level is outside the open interval (0,1), no
\* computation is attempted (no return statistics, no one-day VaR, no horizon
\* sequence) and the run does not complete.  Stated for the runs whose other
\* inputs are valid, so that only the confidence level can stop them.
C1_InvalidConfidenceStopsRun ==
    (Bound("confidence") /\ ~InUnitInterval(confidence) /\ WeightsMatch
       /\ (Bound("data") => (EnoughRows /\ PricesPositive)))
        => (names \cap ComputedNames = {} /\ pc # "done")

\* C2: when the price table has fewer than 2 rows, Return Statistics fails
\* with an insufficient-history failure, and no NaN is ever held by the mean
\* return vector, the covariance matrix, the one-day VaR or a scaled VaR.
\* Stated for the runs whose other inputs are valid.
C2_ShortHistoryFails ==
    (Bound("data") /\ Len(data.rows) < 2 /\ PricesPositive /\ WeightsMatch
       /\ InUnitInterval(confidence))
        => /\ Ran("stats") => (pc = "failed" /\ err = "insufficient-history")
           /\ ~HasNaN(mean_returns)
           /\ \A i \in DOMAIN cov_matrix : ~HasNaN(cov_matrix[i])
           /\ ~IsNaN(value_at_risk)
           /\ ~HasNaN(value_at_risks)


\* the square root s of d as np.sqrt gives it: s >= 0 and d lies between the
\* squares of s and of the next representable value
IsRootOf(s, d) ==
    /\ IsFinite(s)
    /\ FLe(Zero, s)
    /\ FLe(FMul(s, s), d)
    /\ FLt(d, FMul(FAdd(s, Rat(1, SqrtRes)), FAdd(s, Rat(1, SqrtRes))))

\* entry e is the one-day VaR v scaled by the square root of d
IsScaled(e, v, d) ==
    IF IsFinite(v) /\ v # Zero THEN IsFinite(e) /\ IsRootOf(FDiv(e, v), Rat(d, 1))
    ELSE e = v

\* C3: the horizon sequence has exactly one entry per day d = 1..30, in
\* increasing order of d; the entry for day d is the one-day VaR times
\* sqrt(d) (it has the sign of the VaR and its ratio to the VaR squares to
\* d within the resolution of the square root); the entry for d = 1 is the
\* one-day VaR itself.
C3_ScalingLaw ==
    Bound("value_at_risks")
        => /\ DOMAIN value_at_risks = 1 .. 30
           /\ \A d \in 1 .. 30 : IsScaled(value_at_risks[d], value_at_risk, d)
           /\ value_at_risks[1] = value_at_risk

C3_Witness ==
    /\ Bound("value_at_risks")
    /\ IsFinite(value_at_risk)
    /\ FLt(Zero, value_at_risk)
    /\ FLt(value_at_risk, value_at_risks[30])

IndexOf(seq, x) == CHOOSE i \in DOMAIN seq : seq[i] = x

\* the weight written for the ticker of each column of the price table
WeightsByTicker ==
    [j \in 1 .. NumCols(data) |-> weights[IndexOf(tickers, data.cols[j])]]

\* C4: the weight at position i of the weight vector is the one multiplied
\* with the mean return and the covariance row/column of the ticker at
\* position i of the ticker list, whatever the column order of the price
\* table.  Stated for the runs on a valid price table.
C4_WeightsFollowTickers ==
    (Bound("port_stdev") /\ EnoughRows /\ PricesPositive)
        => /\ port_mean = Dot(mean_returns, WeightsByTicker)
           /\ port_stdev = FSqrt(QuadForm(WeightsByTicker, cov_matrix))

ExampleInputs ==
    /\ weights = <<Rat(3, 5), Rat(2, 5)>>
    /\ portfolio_value = Rat(1000, 1)
    /\ mean_returns = <<Rat(1, 1000), Rat(1, 2000)>>
    /\ cov_matrix = <<<<Rat(4, 10000), Rat(1, 10000)>>,
                      <<Rat(1, 10000), Rat(9, 10000)>>>>

\* C5: for weights [0.6, 0.4], notional 1000, mean returns [0.001, 0.0005]
\* and covariance [[0.0004, 0.0001], [0.0001, 0.0009]] the aggregator yields
\* portfolio mean return 0.0008, expected investment value 1000.8 and
\* portfolio variance 0.0001968 (the quadratic form, whose root is the
\* portfolio standard deviation).
C5_ExampleScenario ==
    (Bound("port_stdev") /\ ExampleInputs)
        => /\ port_mean = Rat(8, 10000)
           /\ investment_mean = Rat(10008, 10)
           /\ QuadForm(weights, cov_matrix) = Rat(1968, 10000000)
           /\ IsRootOf(port_stdev, Rat(1968, 10000000))

\* C5, amended: for the same inputs the aggregator yields portfolio mean
\* return 0.0008, expected investment value 1000.8 and portfolio variance
\* 0.000336 (= 0.000144 + 0.000144 + 0.000048), whose root is the portfolio
\* standard deviation.
C5_ExampleScenarioAmended ==
    (Bound("port_stdev") /\ ExampleInputs)
        => /\ port_mean = Rat(8, 10000)
           /\ investment_mean = Rat(10008, 10)
           /\ QuadForm(weights, cov_matrix) = Rat(336, 1000000)
           /\ IsRootOf(port_stdev, Rat(336, 1000000))

C5_Witness == Bound("port_stdev") /\ ExampleInputs /\ pc = "var"

\* C6: when the weight vector does not have the dimension of the mean return
\* vector and the covariance matrix, the aggregator ends in a
\* dimension-mismatch failure and no portfolio mean, no portfolio standard
\* deviation and no VaR is produced.
C6_DimensionMismatchFails ==
    (Bound("data") /\ Len(weights) # NumCols(data))
        => /\ names \cap {"port_mean", "investment_mean", "port_stdev",
                          "investment_stdev", "percent_point",
                          "value_at_risk", "value_at_risks"} = {}
           /\ pc \notin {"var", "scale", "done"}
           /\ Ran("stats") => (pc = "failed" /\ err = "dot-shape-mismatch")

C6_Witness ==
    /\ Bound("mean_returns")
    /\ Len(weights) # Len(mean_returns)
    /\ pc = "failed"
    /\ err = "dot-shape-mismatch"

HasNonPositivePrice ==
    \E i \in DOMAIN data.rows :
        \E j \in DOMAIN data.rows[i] : FLe(data.rows[i][j], Zero)

\* C7: when a price of the table is zero or negative, the return computation
\* fails and the run never continues to a VaR.  Stated for the runs whose
\* other inputs are valid.
C7_NonPositivePriceFails ==
    (Bound("data") /\ HasNonPositivePrice /\ EnoughRows /\ WeightsMatch
       /\ InUnitInterval(confidence))
        => /\ Ran("stats") => pc = "failed"
           /\ ~Bound("value_at_risk")

\* C8: when the investment standard deviation is <= 0, the run ends in an
\* invalid-input failure and no one-day VaR or horizon sequence is produced.
\* Stated for the runs on positive prices and a valid confidence level.
C8_DegenerateStdevFails ==
    (Bound("investment_stdev") /\ FLe(investment_stdev, Zero)
       /\ PricesPositive /\ InUnitInterval(confidence))
        => /\ ~Bound("value_at_risk")
           /\ ~Bound("value_at_risks")
           /\ pc # "done"

Count(cell) == Cardinality({i \in DOMAIN log : log[i] = cell})

VarAt(q) ==
    ValueAtRisk(portfolio_value, NormPpf(q, investment_mean, investment_stdev))

\* C10: for a finite investment mean and a standard deviation > 0 the one-day
\* VaR is notional - x with x the confidence-quantile of Normal(mean, stdev)
\* (x standardised is the quantile of the standard normal), and the VaR at a
\* lower confidence level is strictly larger than at a higher one.
C10_QuantileMonotone ==
    (Bound("value_at_risk") /\ InUnitInterval(confidence)
       /\ IsFinite(investment_mean) /\ IsFinite(investment_stdev)
       /\ FLt(Zero, investment_stdev))
        => /\ FAdd(value_at_risk, percent_point) = portfolio_value
           /\ FDiv(FSub(percent_point, investment_mean), investment_stdev)
                = StdNormalQuantile(confidence)
           /\ \A a \in UnitLevels :
                /\ FLt(a, confidence) => FLt(value_at_risk, VarAt(a))
                /\ FLt(confidence, a) => FLt(VarAt(a), value_at_risk)
           /\ \A a, b \in UnitLevels : FLt(a, b) => FLt(VarAt(b), VarAt(a))

C10_Witness ==
    /\ Bound("value_at_risk")
    /\ confidence = Rat(1, 20)
    /\ FLt(Zero, investment_stdev)
    /\ FLt(value_at_risk, VarAt(Rat(1, 100)))
    /\ FLt(VarAt(Rat(1, 2)), value_at_risk)


\* the second run has ended
SecondRunEnded == prev # Unset /\ pc \in {"done", "failed"}

\* C11: a second run of the pipeline on the identical price table, weights,
\* notional and confidence level ends as the first did and leaves the
\* identical one-day VaR and the identical horizon sequence, although every
\* name of the first run was still bound when it started.
C11_RerunIdentical ==
    SecondRunEnded
        => /\ value_at_risk = prev[1].value_at_risk
           /\ value_at_risks = prev[1].value_at_risks
           /\ pc = prev[1].pc
           /\ err = prev[1].err
           /\ names = prev[1].names

C11_Witness ==
    /\ SecondRunEnded
    /\ pc = "done"
    /\ Count("scale") = 2
    /\ IsFinite(value_at_risk)
    /\ FLt(Zero, value_at_risk)
    /\ port_mean # Zero

====
